---- MODULE Spec2Model ----
(***************************************************************************)
(* Model of abr_control's adaptive dynamics-compensation signal            *)
(* (abr_control/controllers/signals/dynamics_adaptation.py).               *)
(*                                                                         *)
(* Numbers.  numpy floats are represented in fixed point:                  *)
(*   - signal values (training signal, error) in tenths: 2.0 is 20;        *)
(*   - angles in quarters of pi: np.pi is 4, 2*np.pi is 8;                 *)
(*   - times in milliseconds: dt = .001 is 1.                              *)
(* The input sets are chosen so that every norm and every quotient the     *)
(* code computes on them is exact in this representation.                  *)
(***************************************************************************)
EXTENDS Integers, Sequences, FiniteSets, TLC

(***************************************************************************)
(* Bounds of the model.                                                    *)
(***************************************************************************)
\* robot_config.N_JOINTS of the robot the module is built for
N_JOINTS == 2
\* n_adapt_pop is drawn from 1..MaxPop
MaxPop == 2
\* n_neurons is drawn from 1..MaxNeurons
MaxNeurons == 2
\* engine steps (and so generate calls) per instance
MaxSteps == 2
\* raw joint angles are drawn from -MaxTurns*2*pi .. MaxTurns*2*pi
MaxTurns == 2
\* the dimensions of an AreaIntercepts are drawn from 1..MaxDim
MaxDim == 4
\* the components of the vectors gate_error is applied to, in tenths, are
\* drawn from -MaxMag..MaxMag
MaxMag == 100

(***************************************************************************)
(* Program constants, in the fixed-point units above.                      *)
(***************************************************************************)
\* np.pi, in quarters of pi
PI == 4
\* the gating threshold 2.0 of gate_error, in tenths
GateThreshold == 20
\* the factor 0.5 of gate_error, in tenths
GateFactor == 5
\* dt=.001 of nengo.Simulator, in ms
DT == 1
\* time_in_seconds=.001 of sim.run, in ms
RUN_TIME == 1
\* synapse=0.01 of the error connection, in ms
TAU_ERROR == 10

\* 1.0 in tenths: half of the representation of 2.0
One == GateThreshold \div 2

None == "None"
\* an attribute that has not been assigned: a name, an array, a simulator
Unset == "unset"
UnsetVec == <<>>
UnsetSim == [kind |-> "unset", running |-> FALSE]

(***************************************************************************)
(* numpy helpers                                                           *)
(***************************************************************************)
Abs(x) == IF x < 0 THEN -x ELSE x

\* np.zeros(n)
ZeroVec(n) == [i \in 1..n |-> 0]

\* np.zeros((r, c))
Zeros(r, c) == [i \in 1..r |-> [j \in 1..c |-> 0]]

\* M.T of a matrix with at least one row
Transpose(M) == [j \in 1..Len(M[1]) |-> [i \in 1..Len(M) |-> M[i][j]]]

\* M.shape
Shape(M) == <<Len(M), Len(M[1])>>

RECURSIVE SumSq(_)
SumSq(x) == IF x = <<>> THEN 0 ELSE Head(x) * Head(x) + SumSq(Tail(x))

RECURSIVE SumAbs(_)
SumAbs(x) == IF x = <<>> THEN 0 ELSE Abs(Head(x)) + SumAbs(Tail(x))

\* np.linalg.norm(x): the floor of the square root of the sum of squares,
\* exact on the vectors the model feeds it (the norm is at most SumAbs)
Norm(x) ==
    CHOOSE r \in 0..SumAbs(x) : r * r <= SumSq(x) /\ (r + 1) * (r + 1) > SumSq(x)

\* -1 * x
Neg(x) == [i \in 1..Len(x) |-> -x[i]]

(***************************************************************************)
(* The pure functions of the network's callbacks                           *)
(***************************************************************************)

\* a mutant of Wrap: the range is closed at pi instead of at -pi
Wrap_upper(q) == [i \in 1..Len(q) |-> PI - ((PI - q[i]) % (PI * 2))]

\* a mutant of Wrap: the shift by pi before the modulo is missing
Wrap_unshifted(q) == [i \in 1..Len(q) |-> (q[i] % (PI * 2)) - PI]

\* q = ((self.q + np.pi) % (np.pi*2)) - np.pi, elementwise
Wrap(q) == [i \in 1..Len(q) |-> ((q[i] + PI) % (PI * 2)) - PI]

\* robot_config.scaledown(name, x): the collaborator's per-joint scaling,
\* kept symbolic (an injective function of the name and the raw value)
scaledown(name, x) == [i \in 1..Len(x) |-> <<name, i, x[i]>>]

\* a mutant of qdq_input: the velocities are stacked before the angles
qdq_input_swapped(self_q, self_dq, self_use_dq) ==
    LET q == Wrap(self_q)
    IN  IF self_use_dq = TRUE
        THEN scaledown("dq", self_dq) \o scaledown("q", q)
        ELSE scaledown("q", q)

\* the body of qdq_input(t), reading self.q, self.dq and self.use_dq
qdq_input(self_q, self_dq, self_use_dq) ==
    LET q == Wrap(self_q)
    IN  IF self_use_dq = TRUE
        THEN scaledown("q", q) \o scaledown("dq", self_dq)
        ELSE scaledown("q", q)

\* the body of u_input(t), reading self.training_signal
u_input(self_training_signal) == self_training_signal

\* a mutant of gate_error: (x / norm) * 0.5 instead of x / (norm * 0.5)
gate_error_half(x, filter_error) ==
    IF filter_error /\ Norm(x) > GateThreshold
    THEN [i \in 1..Len(x) |-> (x[i] * GateFactor) \div Norm(x)]
    ELSE x

\* gate_error(x): x /= np.linalg.norm(x) * 0.5 when the norm exceeds 2.0
gate_error(x, filter_error) ==
    IF filter_error /\ Norm(x) > GateThreshold
    THEN [i \in 1..Len(x) |-> (x[i] * One * One) \div (Norm(x) * GateFactor)]
    ELSE x

\* a mutant of ErrorConnection: transform=1
ErrorConnection_reward(ts, filter_error) == gate_error(ts, filter_error)

\* nengo.Connection(u_input, learning_rule, transform=-1, function=gate_error):
\* the function is applied to the node's output, then the transform
ErrorConnection(ts, filter_error) == Neg(gate_error(ts, filter_error))

\* synapse=0.01 on the error connection: one step of a first-order low-pass,
\* y + (x - y) * dt / tau, rounded down to the fixed-point grid
Lowpass(y, x, tau) ==
    [i \in 1..Len(x) |-> y[i] + ((x[i] - y[i]) * DT) \div tau]

(***************************************************************************)
(* The host environment: importable packages and the files on disk         *)
(***************************************************************************)
Packages == {"nengo_ocl", "nengo_spinnaker", "nengolib"}

\* the hosts the module is imported on: each package is present on one
\* and absent from another (the code tests each package on its own)
Hosts ==
    { {}, {"nengolib"}, {"nengo_ocl"}, {"nengo_spinnaker", "nengolib"} }

\* paths are sequences of characters, so that Python's indexing of a str
\* (one character) and of a list (one path) can both be modelled
EmptyPath == <<>>
PathAB == <<"a", "b">>
PathXY == <<"x", "y">>

\* the matrix saved last, in (joints x neurons) orientation for MaxNeurons
SavedLast == [j \in 1..N_JOINTS |-> [n \in 1..MaxNeurons |-> j + N_JOINTS * (n - 1)]]

\* the 'weights' entry of the .npz file: a sequence of snapshots, each
\* holding one matrix per learning connection
SavedWeights == << <<Zeros(N_JOINTS, MaxNeurons)>>, <<SavedLast>> >>

\* the files that exist: path -> content of np.load(path)
Disk == PathAB :> [weights |-> SavedWeights]

\* os.path.isfile('%s' % path)
isfile(fs, path) == path \in DOMAIN fs

(***************************************************************************)
(* Constructor arguments                                                   *)
(***************************************************************************)
NoneArg == [kind |-> "None"]
Str(p) == [kind |-> "str", val |-> p]
List(ps) == [kind |-> "list", val |-> ps]

WeightsFileArgs ==
    { NoneArg, Str(EmptyPath), Str(PathAB), List(<<PathAB>>), List(<<PathXY>>) }

Backends == {"nengo", "nengo_ocl", "nengo_spinnaker"}
BackendArgs == Backends \cup {"nengo_gpu"}

\* intercepts=(low, high), in tenths
InterceptArgs == { <<5, 10>> }

AllArgs ==
    [ robot_config : {"robot_config"},
      n_neurons    : 1..MaxNeurons,
      n_adapt_pop  : 1..MaxPop,
      intercepts   : InterceptArgs,
      filter_error : BOOLEAN,
      weights_file : WeightsFileArgs,
      backend      : BackendArgs,
      spiking      : {FALSE},
      use_dq       : BOOLEAN ]

(***************************************************************************)
(* Python semantics used by __init__                                       *)
(***************************************************************************)
\* [''] * n
Repeat(x, n) == [i \in 1..n |-> x]

\* obj[ii] for a 0-based ii: a character of a str, an element of a list or
\* tuple; IndexError out of range; TypeError on an object without __getitem__
Subscript(obj, ii) ==
    IF obj.kind \notin {"str", "list", "tuple"}
    THEN [raised |-> "TypeError"]
    ELSE IF ii + 1 > Len(obj.val)
    THEN [raised |-> "IndexError"]
    ELSE [raised |-> None,
          val |-> IF obj.kind = "str" THEN <<obj.val[ii + 1]>> ELSE obj.val[ii + 1]]

\* the message the module prints when it is imported without nengolib
NengolibWarning == "Nengo lib not installed, encoder placement will be sub-optimal."

\* try: import nengolib / except ImportError: print(...), with nengolib =
\* None set before: what importing the module prints
ImportModule(installed) ==
    IF "nengolib" \in installed THEN <<>> ELSE <<NengolibWarning>>

\* a mutant of SetEncoders: the module does not set nengolib = None before
\* the import, and the name is unbound when the import failed
SetEncoders_unbound(adapt_ens, installed) ==
    IF "nengolib" \notin installed
    THEN [raised |-> "NameError", adapt_ens |-> adapt_ens]
    ELSE [raised |-> "AttributeError", adapt_ens |-> adapt_ens]

\* adapt_ens.encoders = nengolib.stats.ScatteredHypersphere(surface=True)
\* inside try/except AttributeError.  adapt_ens is the Python list of the
\* ensembles: when nengolib is None the right-hand side raises
\* AttributeError, otherwise setting an attribute on a list does; both are
\* swallowed and the ensembles are left as they were.
SetEncoders(adapt_ens, installed) ==
    IF "nengolib" \notin installed
    THEN [raised |-> "AttributeError", adapt_ens |-> adapt_ens]
    ELSE [raised |-> "AttributeError", adapt_ens |-> adapt_ens]

\* the exceptions that `except AttributeError: pass` lets through
Escapes(raised) == raised \notin {None, "AttributeError"}

\* a mutant of LoadTransform: the zeros are not transposed
LoadTransform_untransposed(fs, path, n_neurons) ==
    IF isfile(fs, path)
    THEN LET weights == fs[path].weights
         IN  weights[Len(weights)][1]
    ELSE Zeros(n_neurons, N_JOINTS)

\* the transform of ensemble ii: np.load(path)['weights'][-1][0] when the
\* path is a file, otherwise np.zeros((n_neurons, N_JOINTS)).T
LoadTransform(fs, path, n_neurons) ==
    IF isfile(fs, path)
    THEN LET weights == fs[path].weights
         IN  weights[Len(weights)][1]
    ELSE Transpose(Zeros(n_neurons, N_JOINTS))

\* one pass of the body of `for ii in range(n_adapt_pop)`, on the locals
\* st = [intercepts, adapt_ens, conn_learn, raised]
LoopBody(ii, st, a, weights_file, installed, fs) ==
    LET N_INPUTS == IF a.use_dq = TRUE THEN 2 ELSE 1
        N_DIMS == N_JOINTS * N_INPUTS
        low == Subscript(st.intercepts, 0)
        high == Subscript(st.intercepts, 1)
    IN  IF low.raised # None THEN [st EXCEPT !.raised = low.raised]
        ELSE IF high.raised # None THEN [st EXCEPT !.raised = high.raised]
        ELSE
        LET intercepts == [kind |-> "AreaIntercepts", dimensions |-> N_DIMS,
                           base |-> <<"Uniform", low.val, high.val>>]
            neuron_type == IF a.spiking THEN "LIF" ELSE "LIFRate"
            ens == [n_neurons |-> a.n_neurons, dimensions |-> N_DIMS,
                    intercepts |-> intercepts, neuron_type |-> neuron_type,
                    encoders |-> "default", input |-> "qdq_input"]
            placed == SetEncoders(Append(st.adapt_ens, ens), installed)
            adapt_ens == placed.adapt_ens
            st1 == [st EXCEPT !.intercepts = intercepts, !.adapt_ens = adapt_ens]
            path == Subscript(weights_file, ii)
        IN  IF Escapes(placed.raised) THEN [st1 EXCEPT !.raised = placed.raised]
            ELSE IF path.raised # None THEN [st1 EXCEPT !.raised = path.raised]
            ELSE
            LET transform == LoadTransform(fs, path.val, adapt_ens[ii + 1].n_neurons)
                conn == IF a.backend = "nengo_spinnaker"
                        THEN [pre |-> ii, via |-> "solver", transform |-> transform]
                        ELSE [pre |-> ii, via |-> "neurons", transform |-> transform]
            IN  IF conn.via = "neurons"
                   /\ Shape(transform) # <<N_JOINTS, a.n_neurons>>
                THEN [st1 EXCEPT !.raised = "ValidationError"]
                ELSE [st1 EXCEPT !.conn_learn = Append(@, conn)]

\* for ii in range(n_adapt_pop): ... , stopping at the first exception
RECURSIVE Loop(_, _, _, _, _, _)
Loop(ii, st, a, weights_file, installed, fs) ==
    IF ii >= a.n_adapt_pop \/ st.raised # None
    THEN st
    ELSE Loop(ii + 1, LoopBody(ii, st, a, weights_file, installed, fs),
              a, weights_file, installed, fs)

\* weights_file = ([''] * n_adapt_pop if weights_file is None else weights_file)
WeightsFile(a) ==
    IF a.weights_file.kind = "None"
    THEN List(Repeat(EmptyPath, a.n_adapt_pop))
    ELSE a.weights_file

\* the network built by `with nengo_model:`
BuildNetwork(a, installed, fs) ==
    LET weights_file == WeightsFile(a)
        st0 == [intercepts |-> [kind |-> "tuple", val |-> a.intercepts],
                adapt_ens |-> <<>>, conn_learn |-> <<>>, raised |-> None]
    IN  Loop(0, st0, a, weights_file, installed, fs)

(***************************************************************************)
(* State                                                                   *)
(***************************************************************************)
VARIABLES
    installed,        \* the packages importable on the host
    printed,          \* what importing the module has printed
    files,            \* the files on disk
    status,           \* "none", "ready" (__init__ returned), "failed" (it raised)
    error,            \* the exception __init__ raised, or None
    args,             \* the arguments of the last constructor call
    u_adapt,          \* self.u_adapt
    use_dq,           \* self.use_dq
    N_INPUTS,         \* self.N_INPUTS
    robot_config,     \* self.robot_config
    sim,              \* self.sim
    backend,          \* self.backend
    q,                \* self.q
    dq,               \* self.dq
    training_signal,  \* self.training_signal
    adapt_ens,        \* the ensembles of nengo_model
    conn_learn,       \* the learning connections of nengo_model
    net,              \* the signals of the built simulator
    calls,            \* generate calls that have returned
    ret,              \* the value the last generate call returned
    caller,           \* the calling controller: its last act, its arrays
    probe             \* input and result of a function applied on its own

vars == <<installed, printed, files, status, error, args, u_adapt, use_dq,
          N_INPUTS, robot_config,
          sim, backend, q, dq, training_signal, adapt_ens, conn_learn, net,
          calls, ret, caller, probe>>

NoArgs == [kind |-> "none"]
NoNet == [n_steps |-> 0, engine_calls |-> 0, weights |-> <<>>, fb |-> <<>>, ts_read |-> <<>>,
          learn_in |-> <<>>, err |-> <<>>, out |-> <<>>]
Idle == [fn |-> "idle"]
\* the caller has not called generate on the instance
NoCaller == [last |-> "none", raised |-> None, passed |-> <<>>, path |-> "none"]

\* the signals of a freshly built simulator: the learned weights start at
\* the connections' transforms, the filtered error at zero
NewNet(conns) ==
    [n_steps |-> 0,
     engine_calls |-> 0,
     weights |-> [i \in 1..Len(conns) |->
                     [start |-> conns[i].transform, updates |-> 0,
                      last_error |-> ZeroVec(N_JOINTS)]],
     fb |-> <<>>, ts_read |-> <<>>, learn_in |-> <<>>,
     err |-> ZeroVec(N_JOINTS), out |-> <<>>]

\* the solver of a 'nengo_spinnaker' connection returns DummySolver.fixed,
\* which must have the (neurons x joints) shape of the decoders
SolverShapesOk(conns, ens) ==
    \A i \in 1..Len(conns) :
        Shape(Transpose(conns[i].transform)) = <<ens[i].n_neurons, N_JOINTS>>

\* a mutant of SelectBackend: an unknown name gets the reference simulator
SelectBackend_default(name, pkgs) ==
    IF name = "nengo_ocl" /\ "nengo_ocl" \notin pkgs
    THEN [raised |-> "Nengo OCL not installed", kind |-> "unset"]
    ELSE IF name = "nengo_spinnaker" /\ "nengo_spinnaker" \notin pkgs
    THEN [raised |-> "Nengo SpiNNaker not installed", kind |-> "unset"]
    ELSE IF name \in {"nengo_ocl", "nengo_spinnaker"}
    THEN [raised |-> None, kind |-> name]
    ELSE [raised |-> None, kind |-> "nengo"]

\* a mutant of SelectBackend: a missing OpenCL falls back to nengo
SelectBackend_fallback(name, pkgs) ==
    IF name = "nengo" THEN [raised |-> None, kind |-> "nengo"]
    ELSE IF name = "nengo_ocl"
    THEN [raised |-> None, kind |-> IF "nengo_ocl" \in pkgs THEN "nengo_ocl" ELSE "nengo"]
    ELSE IF name = "nengo_spinnaker"
    THEN IF "nengo_spinnaker" \notin pkgs
         THEN [raised |-> "Nengo SpiNNaker not installed", kind |-> "unset"]
         ELSE [raised |-> None, kind |-> "nengo_spinnaker"]
    ELSE [raised |-> "Invalid backend specified", kind |-> "unset"]

\* the if/elif chain on `backend`: the simulator class used, or the
\* exception raised
SelectBackend(name, pkgs) ==
    IF name = "nengo" THEN [raised |-> None, kind |-> "nengo"]
    ELSE IF name = "nengo_ocl"
    THEN IF "nengo_ocl" \notin pkgs
         THEN [raised |-> "Nengo OCL not installed", kind |-> "unset"]
         ELSE [raised |-> None, kind |-> "nengo_ocl"]
    ELSE IF name = "nengo_spinnaker"
    THEN IF "nengo_spinnaker" \notin pkgs
         THEN [raised |-> "Nengo SpiNNaker not installed", kind |-> "unset"]
         ELSE [raised |-> None, kind |-> "nengo_spinnaker"]
    ELSE [raised |-> "Invalid backend specified", kind |-> "unset"]

\* no instance has been constructed
NoInstance ==
    /\ files = Disk
    /\ status = "none"
    /\ error = None
    /\ args = NoArgs
    /\ u_adapt = UnsetVec
    /\ use_dq = FALSE
    /\ N_INPUTS = 0
    /\ robot_config = Unset
    /\ sim = UnsetSim
    /\ backend = Unset
    /\ q = UnsetVec
    /\ dq = UnsetVec
    /\ training_signal = UnsetVec
    /\ adapt_ens = <<>>
    /\ conn_learn = <<>>
    /\ net = NoNet
    /\ calls = 0
    /\ ret = UnsetVec
    /\ caller = NoCaller

Init ==
    /\ installed \in Hosts
    /\ printed = ImportModule(installed)
    /\ NoInstance
    /\ probe = Idle

(***************************************************************************)
(* DynamicsAdaptation.__init__ on a new instance                           *)
(***************************************************************************)
\* The caller constructs once, and once more after each construction that
\* was refused for its backend name.
CanConstruct ==
    \/ status = "none"
    \/ status = "failed" /\ error = "Invalid backend specified"

\* the argument lists of the constructor calls the caller can make now
Args == IF CanConstruct THEN AllArgs ELSE {}

Construct(a) ==
    /\ CanConstruct
    /\ args' = a
    /\ u_adapt' = ZeroVec(N_JOINTS)
    /\ use_dq' = a.use_dq
    /\ N_INPUTS' = IF a.use_dq = TRUE THEN 2 ELSE 1
    /\ robot_config' = a.robot_config
    /\ calls' = 0
    /\ ret' = UnsetVec
    /\ caller' = NoCaller
    /\ LET built == BuildNetwork(a, installed, files)
           chosen == SelectBackend(a.backend, installed)
           raised == IF built.raised # None THEN built.raised
                     ELSE IF chosen.raised # None THEN chosen.raised
                     ELSE IF chosen.kind = "nengo_spinnaker"
                             /\ ~SolverShapesOk(built.conn_learn, built.adapt_ens)
                     THEN "BuildError"
                     ELSE None
       IN  /\ adapt_ens' = built.adapt_ens
           /\ conn_learn' = built.conn_learn
           /\ error' = raised
           /\ IF raised # None
              THEN /\ status' = "failed"
                   /\ sim' = UnsetSim
                   /\ backend' = Unset
                   /\ q' = UnsetVec
                   /\ dq' = UnsetVec
                   /\ training_signal' = UnsetVec
                   /\ net' = NoNet
              ELSE /\ status' = "ready"
                   /\ sim' = [kind |-> chosen.kind,
                              running |-> chosen.kind = "nengo_spinnaker"]
                   /\ backend' = a.backend
                   /\ net' = NewNet(built.conn_learn)
                   /\ IF chosen.kind = "nengo_spinnaker"
                      THEN /\ q' = ZeroVec(N_JOINTS)
                           /\ dq' = ZeroVec(N_JOINTS)
                           /\ training_signal' = ZeroVec(N_JOINTS)
                      ELSE /\ q' = UnsetVec
                           /\ dq' = UnsetVec
                           /\ training_signal' = UnsetVec
    /\ UNCHANGED <<installed, printed, files, probe>>

(***************************************************************************)
(* One step of the built network                                           *)
(***************************************************************************)
\* The neuron model and the numerics of the learning rule are nengo's.  A
\* step hands the output node some vector x of N_JOINTS components, and
\* applies the learning rule once to every learning connection; the model
\* lets x be any vector of OutputValues and counts the updates.
OutputValues == { ZeroVec(N_JOINTS), [i \in 1..N_JOINTS |-> i] }

\* nengo.PES applied once to a learning connection's weights, with the
\* filtered error err
PES(w, err) == [w EXCEPT !.updates = @ + 1, !.last_error = err]

\* a mutant of u_adapt_output: self.u_adapt += x
u_adapt_output_accumulate(x) == [i \in 1..Len(x) |-> u_adapt[i] + x[i]]

\* the body of u_adapt_output(t, x): self.u_adapt = np.copy(x)
u_adapt_output(x) == x

\* the host side of a step: the input nodes are evaluated on the instance's
\* current q, dq and training_signal, and the error connection applies
\* gate_error and transform=-1 to u_input's output
ReadInputs(n, self_q, self_dq, self_ts, self_use_dq, filter_error) ==
    [n EXCEPT !.fb = qdq_input(self_q, self_dq, self_use_dq),
              !.ts_read = u_input(self_ts),
              !.learn_in = ErrorConnection(u_input(self_ts), filter_error)]

\* the network side of a step: the error is filtered by the synapse, the
\* output node is called with x, the learning rule updates the weights
Advance(n, x) ==
    LET err == Lowpass(n.err, n.learn_in, TAU_ERROR)
    IN  [n EXCEPT !.err = err,
                  !.out = x,
                  !.weights = [i \in 1..Len(n.weights) |-> PES(n.weights[i], err)],
                  !.n_steps = @ + 1]

\* a mutant of StepsPerRun: the run spans one step more
StepsPerRun_more == RUN_TIME \div DT + 1

\* sim.run(time_in_seconds=.001) on a simulator built with dt=.001
StepsPerRun == RUN_TIME \div DT

\* a mutant of Run: the simulator is run before generate has assigned its
\* arguments, and the nodes read the attributes as the call found them
Run_before_store(n, k, self_q, self_dq, self_ts, self_use_dq, filter_error, x) ==
    IF k = 0 THEN n
    ELSE Advance(ReadInputs(n, q, dq, training_signal, self_use_dq, filter_error), x)

RECURSIVE Run(_, _, _, _, _, _, _, _)
Run(n, k, self_q, self_dq, self_ts, self_use_dq, filter_error, x) ==
    IF k = 0 THEN n
    ELSE Run(Advance(ReadInputs(n, self_q, self_dq, self_ts, self_use_dq, filter_error), x),
             k - 1, self_q, self_dq, self_ts, self_use_dq, filter_error, x)

(***************************************************************************)
(* Inputs of generate                                                      *)
(***************************************************************************)
\* a vector along joint j
AxisVec(j, m) == [i \in 1..N_JOINTS |-> IF i = j THEN m ELSE 0]
\* a vector (3k, 4k, 0, ...), of norm 5k
Pyth(k) == [i \in 1..N_JOINTS |-> IF i = 1 THEN 3 * k ELSE IF i = 2 THEN 4 * k ELSE 0]

\* the arguments <<q, dq, training_signal>> of the generate calls: angles in
\* quarters of pi (zero, and beyond pi in every joint), velocities, and
\* training signals in tenths, of norm 1.0 and of norm 10.0
GenerateInputs ==
    { <<ZeroVec(N_JOINTS), ZeroVec(N_JOINTS), Pyth(2)>>,
      <<ZeroVec(N_JOINTS), AxisVec(N_JOINTS, 7), Pyth(2)>>,
      <<ZeroVec(N_JOINTS), AxisVec(N_JOINTS, 7), Pyth(20)>>,
      <<[i \in 1..N_JOINTS |-> IF i = 1 THEN PI + 1 ELSE PI], ZeroVec(N_JOINTS), Neg(Pyth(20))>> }

(***************************************************************************)
(* DynamicsAdaptation.generate                                             *)
(***************************************************************************)
\* a caller's error: an angle vector with one component too many
MalformedInputs ==
    { <<ZeroVec(N_JOINTS + 1), ZeroVec(N_JOINTS), Pyth(2)>> }

\* the arguments the caller passes
CallInputs == GenerateInputs \cup MalformedInputs

\* a mutant of StepFails: once a step has failed the engine refuses every
\* later one
StepFails_once_failed(self_q, self_dq, self_ts, self_use_dq, n_inputs) ==
    \/ caller.last = "raised"
    \/ Len(qdq_input(self_q, self_dq, self_use_dq)) # N_JOINTS * n_inputs
    \/ Len(u_input(self_ts)) # N_JOINTS

\* the engine step raises when a node function does not return the
\* size_out components its node was built with: N_JOINTS * N_INPUTS for
\* qdq_input, N_JOINTS for u_input
StepFails(self_q, self_dq, self_ts, self_use_dq, n_inputs) ==
    \/ Len(qdq_input(self_q, self_dq, self_use_dq)) # N_JOINTS * n_inputs
    \/ Len(u_input(self_ts)) # N_JOINTS

\* a mutant of Uncaught: generate catches the exception of the step and
\* goes on to return self.u_adapt
Uncaught_swallowed(exc) == None

\* generate has no try statement: an exception raised inside sim.run or
\* sim.async_update leaves generate as it is
Uncaught(exc) == exc

\* a mutant of async_update: the exchange is made before the assignment
\* self.training_signal = training_signal, and reads the attribute as the
\* call found it
async_update_early(n, self_q, self_dq, self_ts, self_use_dq, filter_error) ==
    ReadInputs(n, self_q, self_dq, training_signal, self_use_dq, filter_error)

\* a mutant of async_update: the exchange waits for a step of the machine
async_update_blocking(n, self_q, self_dq, self_ts, self_use_dq, filter_error) ==
    Advance(ReadInputs(n, self_q, self_dq, self_ts, self_use_dq, filter_error),
            ZeroVec(N_JOINTS))

\* sim.async_update(): the node values are exchanged with the running
\* machine; no step is run or awaited
async_update(n, self_q, self_dq, self_ts, self_use_dq, filter_error) ==
    ReadInputs(n, self_q, self_dq, self_ts, self_use_dq, filter_error)

\* a mutant of GenerateFrame: generate also sets self.use_dq
GenerateFrame_sets_use_dq ==
    /\ use_dq' = TRUE
    /\ UNCHANGED <<installed, printed, files, status, error, args, N_INPUTS,
                   robot_config, sim, backend, adapt_ens, conn_learn, probe>>

\* generate assigns self.q, self.dq and self.training_signal, and the step
\* it runs assigns self.u_adapt: every other attribute of the instance, and
\* the network built by __init__, is left as it is
GenerateFrame ==
    UNCHANGED <<installed, printed, files, status, error, args, use_dq, N_INPUTS,
                robot_config, sim, backend, adapt_ens, conn_learn, probe>>

\* a mutant of Branch: the second test misspells the backend's name
Branch_misspelt(self_backend) ==
    IF self_backend = "nengo" \/ self_backend = "nengo_ocl" THEN "run"
    ELSE IF self_backend = "nengo_spinaker" THEN "async_update"
    ELSE "fallback"

\* the branch generate takes: if self.backend == 'nengo' or self.backend ==
\* 'nengo_ocl' / elif self.backend == 'nengo_spinnaker' / else
Branch(self_backend) ==
    IF self_backend = "nengo" \/ self_backend = "nengo_ocl" THEN "run"
    ELSE IF self_backend = "nengo_spinnaker" THEN "async_update"
    ELSE "fallback"

\* what the caller sees of a generate call: the value returned, or the
\* exception that left it
Outcome(exc, value, passed) ==
    /\ ret' = IF exc # None THEN UnsetVec ELSE value
    /\ calls' = IF exc # None THEN calls ELSE calls + 1
    /\ caller' = [last |-> IF exc # None THEN "raised" ELSE "returned",
                  raised |-> exc, passed |-> passed, path |-> Branch(backend)]

\* with backend 'nengo' or 'nengo_ocl', and in the final else branch:
\* sim.run blocks for the step
GenerateSync(qv, dqv, tsv, x) ==
    /\ status = "ready"
    /\ Branch(backend) \in {"run", "fallback"}
    /\ net.engine_calls < MaxSteps
    /\ net.n_steps + StepsPerRun <= MaxSteps
    /\ q' = qv
    /\ dq' = dqv
    /\ training_signal' = tsv
    /\ LET failed == StepFails(qv, dqv, tsv, use_dq, N_INPUTS)
       IN  /\ net' = [(IF failed THEN net
                       ELSE Run(net, StepsPerRun, qv, dqv, tsv, use_dq,
                                args.filter_error, x))
                      EXCEPT !.engine_calls = @ + 1]
           /\ u_adapt' = IF failed THEN u_adapt ELSE u_adapt_output(net'.out)
           /\ Outcome(IF failed THEN Uncaught("ValueError") ELSE None,
                      u_adapt', <<qv, dqv, tsv>>)
    /\ GenerateFrame

\* with backend 'nengo_spinnaker': sim.async_update() exchanges the node
\* values with the running machine and returns
GenerateAsync(qv, dqv, tsv) ==
    /\ status = "ready"
    /\ Branch(backend) = "async_update"
    /\ net.engine_calls < MaxSteps
    /\ q' = qv
    /\ dq' = dqv
    /\ training_signal' = tsv
    /\ LET failed == StepFails(qv, dqv, tsv, use_dq, N_INPUTS)
       IN  /\ net' = [(IF failed THEN net
                       ELSE async_update(net, qv, dqv, tsv, use_dq,
                                         args.filter_error))
                      EXCEPT !.engine_calls = @ + 1]
           /\ u_adapt' = IF failed \/ net.out = <<>> THEN u_adapt
                         ELSE u_adapt_output(net.out)
           /\ Outcome(IF failed THEN Uncaught("ValueError") ELSE None,
                      u_adapt', <<qv, dqv, tsv>>)
    /\ GenerateFrame

\* a step of the machine started by sim.async_run_forever(), on the node
\* values of the last exchange (those of the zero inputs before the first)
MachineStep(x) ==
    /\ status = "ready"
    /\ sim.running
    /\ net.n_steps < MaxSteps
    /\ net' = Advance(IF net.learn_in = <<>>
                      THEN ReadInputs(net, ZeroVec(N_JOINTS), ZeroVec(N_JOINTS),
                                      ZeroVec(N_JOINTS), use_dq, args.filter_error)
                      ELSE net, x)
    /\ UNCHANGED <<installed, printed, files, status, error, args, u_adapt, use_dq,
                   N_INPUTS, robot_config, sim, backend, q, dq, training_signal, adapt_ens,
                   conn_learn, calls, ret, caller, probe>>

\* self.q = q, self.dq = dq, self.training_signal = training_signal bind
\* the attributes to the caller's arrays: what the caller writes into an
\* array afterwards is what the attribute holds
SharedArray(stored, written) == written

\* between two generate calls the caller reuses the array it passed as
\* training_signal, and clears it in place
CallerWrites ==
    /\ status = "ready"
    /\ caller.last = "returned"
    /\ net.engine_calls < MaxSteps
    /\ training_signal # ZeroVec(N_JOINTS)
    /\ training_signal' = SharedArray(training_signal, ZeroVec(N_JOINTS))
    /\ caller' = [caller EXCEPT !.last = "wrote"]
    /\ UNCHANGED <<installed, printed, files, status, error, args, u_adapt, use_dq,
                   N_INPUTS, robot_config, sim, backend, q, dq, adapt_ens, conn_learn, net,
                   calls, ret, probe>>

Next ==
    \/ \E a \in Args : Construct(a)
    \/ \E in \in CallInputs, x \in OutputValues :
           GenerateSync(in[1], in[2], in[3], x)
    \/ \E in \in CallInputs : GenerateAsync(in[1], in[2], in[3])
    \/ \E x \in OutputValues : MachineStep(x)
    \/ CallerWrites

Spec == Init /\ [][Next]_vars

(***************************************************************************)
(* gate_error applied on its own                                           *)
(***************************************************************************)
\* vectors whose norm is exact: along one joint, or multiples of (3, 4)
GateInputs ==
    { AxisVec(j, m) : j \in 1..N_JOINTS, m \in -MaxMag..MaxMag }
    \cup { Pyth(k) : k \in -(MaxMag \div 5)..(MaxMag \div 5) }

GateInit ==
    /\ installed = {}
    /\ printed = ImportModule(installed)
    /\ NoInstance
    /\ \E x \in GateInputs, f \in BOOLEAN :
           probe = [fn |-> "gate_error", filter_error |-> f, x |-> x,
                    applied |-> FALSE, y |-> x]

ApplyGate ==
    /\ probe.fn = "gate_error"
    /\ ~probe.applied
    /\ probe' = [probe EXCEPT !.applied = TRUE,
                              !.y = gate_error(probe.x, probe.filter_error)]
    /\ UNCHANGED <<installed, printed, files, status, error, args, u_adapt, use_dq,
                   N_INPUTS, robot_config, sim, backend, q, dq, training_signal, adapt_ens,
                   conn_learn, net, calls, ret, caller>>

GateNext == ApplyGate

SpecGate == GateInit /\ [][GateNext]_vars

(***************************************************************************)
(* The angle wrapping of qdq_input applied on its own                      *)
(***************************************************************************)
Angles == (-(MaxTurns * 2 * PI))..(MaxTurns * 2 * PI)

WrapInit ==
    /\ installed = {}
    /\ printed = ImportModule(installed)
    /\ NoInstance
    /\ \E qv \in [1..N_JOINTS -> Angles] :
           probe = [fn |-> "wrap", q |-> qv, applied |-> FALSE, y |-> qv]

ApplyWrap ==
    /\ probe.fn = "wrap"
    /\ ~probe.applied
    /\ probe' = [probe EXCEPT !.applied = TRUE, !.y = Wrap(probe.q)]
    /\ UNCHANGED <<installed, printed, files, status, error, args, u_adapt, use_dq,
                   N_INPUTS, robot_config, sim, backend, q, dq, training_signal, adapt_ens,
                   conn_learn, net, calls, ret, caller>>

WrapNext == ApplyWrap

SpecWrap == WrapInit /\ [][WrapNext]_vars

(***************************************************************************)
(* AreaIntercepts.transform applied on its own                             *)
(***************************************************************************)
\* Base samples and intercepts are in tenths; the result of betaincinv is
\* in hundredths, so that its square root is in tenths.

\* np.sqrt, rounded down
Sqrt(n) == CHOOSE r \in 0..n : r * r <= n /\ n < (r + 1) * (r + 1)

RECURSIVE Pow(_, _)
Pow(b, e) == IF e = 0 THEN 1 ELSE b * Pow(b, e - 1)

\* (1 - s^2)^((d-1)/2) at the grid point s, scaled by One^(d-1)
Density(d, s) == Pow(Sqrt(One * One - s * s), d - 1)

\* the integral of Density(d, .) from 0 to k, as the sum over the grid
RECURSIVE Area(_, _)
Area(d, k) == IF k = 0 THEN 0 ELSE Area(d, k - 1) + Density(d, k - 1)

\* scipy.special.betaincinv(a2 / 2, 0.5, y): the z with I_z(a2/2, 1/2) = y.
\* With d = a2 - 1 and u = sqrt(1 - z), 1 - I_z(a2/2, 1/2) is the integral
\* of (1 - s^2)^((d-1)/2) from 0 to u over the one from 0 to 1; u is
\* rounded down to the grid.
betaincinv(a2, y) ==
    LET d == a2 - 1
        u == CHOOSE k \in 0..One :
                 /\ Area(d, k) * One <= (One - y) * Area(d, One)
                 /\ \A j \in (k + 1)..One :
                        Area(d, j) * One > (One - y) * Area(d, One)
    IN  One * One - u * u

\* a mutant of transform: the positive branch keeps sign = 1
transform_even(dimensions, x) ==
    LET sign == 1
        xn == IF x > 0 THEN -x ELSE x
    IN  sign * Sqrt(One * One - betaincinv(dimensions + 1, xn + One))

\* a mutant of transform: the signs of the two branches are exchanged
transform_negated(dimensions, x) ==
    LET sign == IF x > 0 THEN 1 ELSE -1
        xn == IF x > 0 THEN -x ELSE x
    IN  sign * Sqrt(One * One - betaincinv(dimensions + 1, xn + One))

\* AreaIntercepts.transform(x) of an instance with self.dimensions
transform(dimensions, x) ==
    LET sign == IF x > 0 THEN -1 ELSE 1
        xn == IF x > 0 THEN -x ELSE x
    IN  sign * Sqrt(One * One - betaincinv(dimensions + 1, xn + One))

\* the samples of the base distribution lie in [-1, 1]
BaseSamples == (-One)..One

InterceptInit ==
    /\ installed = {}
    /\ printed = ImportModule(installed)
    /\ NoInstance
    /\ \E d \in 1..MaxDim, x \in BaseSamples :
           probe = [fn |-> "transform", dimensions |-> d, x |-> x,
                    applied |-> FALSE, y |-> x]

\* AreaIntercepts.sample on one sample: s[i] = self.transform(s[i])
ApplyTransform ==
    /\ probe.fn = "transform"
    /\ ~probe.applied
    /\ probe' = [probe EXCEPT !.applied = TRUE,
                              !.y = transform(probe.dimensions, probe.x)]
    /\ UNCHANGED <<installed, printed, files, status, error, args, u_adapt, use_dq,
                   N_INPUTS, robot_config, sim, backend, q, dq, training_signal, adapt_ens,
                   conn_learn, net, calls, ret, caller>>

InterceptNext == ApplyTransform

SpecIntercept == InterceptInit /\ [][InterceptNext]_vars

(***************************************************************************)
(* Claims                                                                  *)
(***************************************************************************)
Synchronous == status = "ready" /\ backend \in {"nengo", "nengo_ocl"}

\* C1: with backend 'nengo' or 'nengo_ocl', after k generate calls the
\* engine has executed exactly k steps, and after each call the step of
\* that call has read the three inputs the call stored and the value
\* returned is the corrective output that step wrote.
C1_SyncGenerateStepsOnce ==
    Synchronous =>
        /\ net.n_steps = calls
        /\ (calls > 0 /\ caller.last = "returned") =>
              /\ net.fb = qdq_input(q, dq, use_dq)
              /\ net.ts_read = training_signal
              /\ u_adapt = net.out
              /\ ret = net.out

\* C1 witness: two synchronous generate calls have returned
C1_Witness == Synchronous /\ calls = 2 /\ net.n_steps = 2 /\ ret = net.out

\* the constructor was called with a name that is no recognized backend
RefusedBackend == status # "none" /\ args.backend \notin Backends

\* the call args' repeats the call args with another backend
SameButBackend(a, b) == a = [b EXCEPT !.backend = a.backend]

\* C2: a construction with an unrecognized backend name raises, and leaves
\* neither a simulator nor a backend on the instance; after a construction
\* refused for its backend name, the same construction with a recognized
\* backend that is available succeeds.
C2_InvalidBackendFails ==
    /\ [](RefusedBackend =>
            status = "failed" /\ error # None /\ sim = UnsetSim /\ backend = Unset)
    /\ [][ ( /\ status = "failed"
             /\ error = "Invalid backend specified"
             /\ args' # args
             /\ SameButBackend(args', args)
             /\ args'.backend \in Backends
             /\ args'.backend \in installed \cup {"nengo"} )
           => ( /\ status' = "ready"
                /\ sim'.kind = args'.backend
                /\ backend' = args'.backend ) ]_vars

\* C2 witness: a construction was refused for its backend name
C2_Witness ==
    /\ RefusedBackend
    /\ status = "failed"
    /\ error = "Invalid backend specified"
    /\ sim = UnsetSim

\* the constructor was called for a backend whose package is not installed
MissingDependency ==
    /\ status # "none"
    /\ args.backend \in {"nengo_ocl", "nengo_spinnaker"}
    /\ args.backend \notin installed

\* C3: a construction for 'nengo_ocl' or 'nengo_spinnaker' whose package
\* is absent fails, and whenever a construction succeeds the simulator in
\* use is the one of the requested backend.
C3_NoFallback ==
    /\ MissingDependency => status = "failed" /\ error # None /\ sim = UnsetSim
    /\ status = "ready" => sim.kind = args.backend /\ backend = args.backend

\* C3 witness: a construction failed for the missing OpenCL package
C3_Witness ==
    /\ MissingDependency
    /\ status = "failed"
    /\ error = "Nengo OCL not installed"

GateApplied == probe.fn = "gate_error" /\ probe.applied
GateExceeded == probe.filter_error /\ Norm(probe.x) > GateThreshold

\* y has the direction of x
SameDirection(x, y) == \A i \in 1..Len(x) : y[i] * Norm(x) = x[i] * Norm(y)

Delivered == { net.weights[i].last_error : i \in 1..Len(net.weights) }

WrapApplied == probe.fn = "wrap" /\ probe.applied

\* C6 as stated: every wrapped angle lies in the half-open interval
\* (-pi, pi].
C6_WrappedInLeftOpenInterval ==
    WrapApplied => \A i \in 1..N_JOINTS : -PI < probe.y[i] /\ probe.y[i] <= PI

\* C6 as amended: every wrapped angle lies in the half-open interval
\* [-pi, pi): an odd multiple of pi is wrapped to -pi, and pi is never a
\* result.
C6_WrappedInRightOpenInterval ==
    WrapApplied =>
        \A i \in 1..N_JOINTS :
            /\ -PI <= probe.y[i] /\ probe.y[i] < PI
            /\ (probe.q[i] - PI) % (2 * PI) = 0 => probe.y[i] = -PI

\* C6 witness: the angle pi has been wrapped to -pi
C6_Witness ==
    WrapApplied /\ \E i \in 1..N_JOINTS : probe.q[i] = PI /\ probe.y[i] = -PI

\* C7: the wrapped angle differs from the raw one by a multiple of 2 pi,
\* an angle outside [-pi, pi) is never left unchanged, pi + d with
\* 0 < d < 2 pi is wrapped to -pi + d, and wrapping a wrapped angle
\* returns it.
C7_WrapIsReductionModTwoPi ==
    WrapApplied =>
        /\ \A i \in 1..N_JOINTS :
              /\ (probe.y[i] - probe.q[i]) % (2 * PI) = 0
              /\ (probe.q[i] < -PI \/ probe.q[i] >= PI) => probe.y[i] # probe.q[i]
              /\ (PI < probe.q[i] /\ probe.q[i] < 3 * PI) => probe.y[i] = probe.q[i] - 2 * PI
        /\ Wrap(probe.y) = probe.y

\* C7 witness: pi + d has been wrapped to -pi + d
C7_Witness ==
    WrapApplied /\ \E i \in 1..N_JOINTS : probe.q[i] = PI + 1 /\ probe.y[i] = 1 - PI

\* the path the loop uses for the ensemble with 1-based index i
EnsemblePath(i) == Subscript(WeightsFile(args), i - 1).val

ConfiguredPath(i) ==
    IF args.weights_file.kind = "str" THEN args.weights_file.val
    ELSE IF args.weights_file.kind = "list" THEN args.weights_file.val[i]
    ELSE EmptyPath

\* the last snapshot saved in a checkpoint file
LastSnapshot(file) == file.weights[Len(file.weights)][1]

\* C9: when the configured weights path names an existing file, the
\* ensemble's initial transform is the last snapshot of the file,
\* transposed, and the files are as they were.
C9_LoadsLastSnapshotTransposed ==
    status = "ready" =>
        /\ files = Disk
        /\ \A i \in 1..Len(conn_learn) :
               isfile(files, ConfiguredPath(i)) =>
                   conn_learn[i].transform =
                       Transpose(LastSnapshot(files[ConfiguredPath(i)]))

\* C10: for every n_adapt_pop >= 1 a construction (from no weights file,
\* with the reference backend) succeeds and builds n_adapt_pop ensembles
\* of n_neurons units, with intercepts on the configured bounds, driven by
\* the feedback node.
C10_BuildsEveryPopulation ==
    ( /\ status # "none"
      /\ args.weights_file.kind = "None"
      /\ args.backend = "nengo" ) =>
        /\ status = "ready"
        /\ Len(adapt_ens) = args.n_adapt_pop
        /\ \A i \in 1..Len(adapt_ens) :
              /\ adapt_ens[i].n_neurons = args.n_neurons
              /\ adapt_ens[i].intercepts.base =
                     <<"Uniform", args.intercepts[1], args.intercepts[2]>>
              /\ adapt_ens[i].input = "qdq_input"

\* C11: the corrective output of an instance always has N_JOINTS
\* components; it is all zeros until the engine has stepped, and every call
\* of the output node replaces it with the vector of that call: after a
\* synchronous step it is that step's output, and it is never a sum of
\* outputs.
C11_OutputOverwritten ==
    status # "none" =>
        /\ Len(u_adapt) = N_JOINTS
        /\ net.n_steps = 0 => u_adapt = ZeroVec(N_JOINTS)
        /\ (Synchronous /\ net.n_steps > 0) => u_adapt = net.out
        /\ u_adapt \in OutputValues \cup {ZeroVec(N_JOINTS)}

\* C11 witness: a second synchronous step has replaced a non-zero output
\* by its own non-zero output
C11_Witness ==
    /\ Synchronous
    /\ net.n_steps = 2
    /\ u_adapt = net.out
    /\ u_adapt # ZeroVec(N_JOINTS)

\* the step of the last generate call failed: the hard stop of the module
Stopped == status = "ready" /\ caller.last = "raised"

\* this step is a generate call: the engine has been invoked
GenerateCalled == status = "ready" /\ net'.engine_calls # net.engine_calls

\* q, dq and training_signal have one component per joint
WellFormed ==
    Len(q) = N_JOINTS /\ Len(dq) = N_JOINTS /\ Len(training_signal) = N_JOINTS

\* C12 as stated: once the module is stopped it stays stopped, and a
\* generate call attempted then fails: it steps no engine and returns no
\* output.
C12_StoppedIsTerminal ==
    [][ Stopped =>
           /\ Stopped'
           /\ GenerateCalled =>
                 /\ caller'.last = "raised"
                 /\ net'.n_steps = net.n_steps
                 /\ calls' = calls ]_vars

\* C12 as amended: the module has no stopped state; a generate call made
\* after a failed one is handled like every other call: it stores its
\* inputs and invokes the engine once, and with inputs the engine accepts
\* it returns the corrective output (after one more step of a synchronous
\* engine).
C12_NoStoppedState ==
    [][ (Stopped /\ GenerateCalled) =>
           /\ <<q', dq', training_signal'>> = caller'.passed
           /\ net'.engine_calls = net.engine_calls + 1
           /\ WellFormed' =>
                 /\ caller'.last = "returned"
                 /\ calls' = calls + 1
                 /\ ret' = u_adapt'
                 /\ Synchronous => net'.n_steps = net.n_steps + 1 ]_vars

\* C12 witness: a synchronous generate call has stepped the engine and
\* returned after an earlier call had failed
C12_Witness ==
    /\ Synchronous
    /\ caller.last = "returned"
    /\ net.engine_calls = 2
    /\ calls = 1
    /\ net.n_steps = 1
    /\ ret = net.out

Asynchronous == status = "ready" /\ backend = "nengo_spinnaker"

\* C13: with backend 'nengo_spinnaker' the machine runs from construction
\* on and generate never starts it again, runs no step and waits for none:
\* a call that returns has stored its inputs, exchanged the node values
\* once, and returned the output the machine wrote last before the call
\* (zeros when it has written none).
C13_AsyncGenerateOnlyExchanges ==
    /\ [](Asynchronous => sim.kind = "nengo_spinnaker" /\ sim.running)
    /\ [][ Asynchronous => sim' = sim ]_vars
    /\ [][ (Asynchronous /\ GenerateCalled /\ caller'.last = "returned") =>
              /\ <<q', dq', training_signal'>> = caller'.passed
              /\ net'.engine_calls = net.engine_calls + 1
              /\ net'.n_steps = net.n_steps
              /\ net'.out = net.out
              /\ net'.fb = qdq_input(q', dq', use_dq)
              /\ net'.ts_read = training_signal'
              /\ ret' = IF net.out = <<>> THEN ZeroVec(N_JOINTS) ELSE net.out ]_vars

\* C13 witness: the call returned a non-zero output that the machine wrote
\* in a step driven by the zero error of before the call, while the call
\* submitted a non-zero training signal
C13_Witness ==
    /\ Asynchronous
    /\ caller.last = "returned"
    /\ calls = 1
    /\ net.n_steps = 1
    /\ ret = net.out
    /\ ret # ZeroVec(N_JOINTS)
    /\ training_signal # ZeroVec(N_JOINTS)
    /\ net.ts_read = training_signal
    /\ \A i \in 1..Len(net.weights) : net.weights[i].last_error = ZeroVec(N_JOINTS)

\* C14: when the engine step of a generate call fails, the engine has been
\* invoked once by that call, the exception leaves that call, and the call
\* returns nothing and completes no step.
C14_StepFailurePropagates ==
    [][ (GenerateCalled /\ ~WellFormed') =>
           /\ net'.engine_calls = net.engine_calls + 1
           /\ caller'.last = "raised"
           /\ caller'.raised # None
           /\ ret' = UnsetVec
           /\ calls' = calls
           /\ net'.n_steps = net.n_steps ]_vars

\* C14 witness: after a call that returned, a call has failed
C14_Witness ==
    /\ status = "ready"
    /\ caller.last = "raised"
    /\ caller.raised = "ValueError"
    /\ ~WellFormed
    /\ ret = UnsetVec
    /\ calls = 1
    /\ net.engine_calls = 2

TransformApplied == probe.fn = "transform" /\ probe.applied

Sign(x) == IF x > 0 THEN 1 ELSE IF x < 0 THEN -1 ELSE 0

\* C15: for every dimensionality the intercept transform is odd,
\* transform(-x) = -transform(x), and its magnitude is a monotonic
\* (non-decreasing) function of |x|.
C15_TransformOddAndMonotonic ==
    TransformApplied =>
        /\ transform(probe.dimensions, -probe.x) = -probe.y
        /\ \A x2 \in BaseSamples :
               Abs(x2) <= Abs(probe.x) =>
                   Abs(transform(probe.dimensions, x2)) <= Abs(probe.y)

\* C15 witness: in more than one dimension, a sample strictly inside
\* (0, 1) has been mapped to a non-zero intercept of smaller magnitude
C15_Witness ==
    /\ TransformApplied
    /\ probe.dimensions > 1
    /\ probe.x > 0 /\ probe.x < One
    /\ probe.y # 0
    /\ Abs(probe.y) < probe.x

\* C16 as stated: the transform preserves the sign of x and equals
\* sign(x) * sqrt(1 - betaincinv((d+1)/2, 0.5, |x|)); the result at 0 is
\* defined.
C16_SignPreserving ==
    TransformApplied =>
        /\ probe.y = Sign(probe.x)
                       * Sqrt(One * One - betaincinv(probe.dimensions + 1, Abs(probe.x)))
        /\ probe.x > 0 => probe.y >= 0
        /\ probe.x < 0 => probe.y <= 0

\* C16 as amended: the transform inverts the sign of x and equals
\* -sign(x) * sqrt(1 - betaincinv((d+1)/2, 0.5, 1 - |x|)): a positive x
\* gives a non-positive intercept, a negative x a non-negative one, and 0,
\* which takes the branch that leaves x and the sign alone, gives 0.
C16_SignInverting ==
    TransformApplied =>
        /\ probe.y = -Sign(probe.x)
                       * Sqrt(One * One
                              - betaincinv(probe.dimensions + 1, One - Abs(probe.x)))
        /\ probe.x > 0 => probe.y <= 0
        /\ probe.x < 0 => probe.y >= 0
        /\ probe.x = 0 => probe.y = 0

\* C16 witness: the sample 1.0 has been mapped to the intercept -1.0
C16_Witness ==
    /\ TransformApplied
    /\ probe.dimensions > 1
    /\ probe.x = One
    /\ probe.y = -One

\* the constructor has been called on a host without nengolib
WithoutNengolib == status # "none" /\ "nengolib" \notin installed

\* C17: on a host without nengolib the import prints one warning, and the
\* construction is what it is with nengolib: it is not aborted for the
\* missing package, the same ensembles and connections are built, with the
\* default (random) encoders; a construction that has nothing else to fail
\* on succeeds.
C17_MissingNengolibOnlyWarns ==
    /\ printed = (IF "nengolib" \in installed THEN <<>> ELSE <<NengolibWarning>>)
    /\ WithoutNengolib =>
          LET built == BuildNetwork(args, installed \cup {"nengolib"}, files)
          IN  /\ adapt_ens = built.adapt_ens
              /\ conn_learn = built.conn_learn
              /\ built.raised # None => error = built.raised
              /\ error \notin {"AttributeError", "NameError", "ImportError"}
              /\ \A i \in 1..Len(adapt_ens) : adapt_ens[i].encoders = "default"
              /\ ( /\ args.n_adapt_pop = 1
                   /\ args.weights_file = NoneArg
                   /\ args.backend = "nengo" ) => status = "ready"

\* C17 witness: an instance has been constructed without nengolib
C17_Witness ==
    /\ WithoutNengolib
    /\ status = "ready"
    /\ printed = <<NengolibWarning>>
    /\ Len(adapt_ens) = 1
    /\ adapt_ens[1].encoders = "default"

\* the engine has read the inputs that the last generate call stored
Encoded == status = "ready" /\ caller.last = "returned"

\* C18: the encoded feedback has N_JOINTS * N_INPUTS components, with
\* N_INPUTS = 2 when use_dq is set and 1 otherwise.  Without use_dq it is
\* the scaled wrapped angles alone, whatever the velocities are; with
\* use_dq it is the scaled wrapped angles followed by the scaled
\* velocities.
C18_FeedbackLayout ==
    Encoded =>
        /\ N_INPUTS = (IF use_dq THEN 2 ELSE 1)
        /\ Len(net.fb) = N_JOINTS * N_INPUTS
        /\ \A i \in 1..N_JOINTS : net.fb[i] = <<"q", i, Wrap(q)[i]>>
        /\ use_dq => \A i \in 1..N_JOINTS : net.fb[N_JOINTS + i] = <<"dq", i, dq[i]>>
        /\ ~use_dq => \A in \in GenerateInputs : qdq_input(q, in[2], use_dq) = net.fb

\* C18 witness: without use_dq, a call with non-zero velocities and angles
\* beyond pi has been encoded
C18_Witness ==
    /\ Encoded
    /\ ~use_dq
    /\ dq # ZeroVec(N_JOINTS)
    /\ Len(net.fb) = N_JOINTS

\* C18 witness of the other layout: with use_dq, the velocities follow
C18_WitnessWithVelocities ==
    /\ Encoded
    /\ use_dq
    /\ dq # ZeroVec(N_JOINTS)
    /\ Len(net.fb) = 2 * N_JOINTS

\* C19: on a host with nengolib, every ensemble of a constructed instance
\* has its encoders set to the scattered-hypersphere placement.
C19_EncodersFromNengolib ==
    (status = "ready" /\ "nengolib" \in installed) =>
        \A i \in 1..Len(adapt_ens) : adapt_ens[i].encoders = "ScatteredHypersphere"

\* C20: what the instance holds of q, dq and training_signal for the
\* engine to read is what was passed when generate was called, whatever
\* the caller has written into its arrays since.
C20_InputsAreSnapshots ==
    (status = "ready" /\ caller.last \in {"returned", "wrote"}) =>
        <<q, dq, training_signal>> = caller.passed

\* C21: while an instance is in use, no step (a generate call, a step of
\* the running machine, a write of the caller into its arrays) changes
\* the backend, the simulator, the ensembles and learning connections and
\* their number, N_INPUTS, use_dq or the robot configuration; a generate
\* call changes only q, dq, training_signal, the signals of the network
\* (the weights among them) and the corrective output.
C21_TopologyImmutable ==
    [][ status = "ready" =>
           /\ status' = "ready"
           /\ backend' = backend
           /\ sim' = sim
           /\ adapt_ens' = adapt_ens
           /\ conn_learn' = conn_learn
           /\ Len(net'.weights) = Len(adapt_ens)
           /\ N_INPUTS' = N_INPUTS
           /\ use_dq' = use_dq
           /\ robot_config' = robot_config
           /\ args' = args ]_vars

\* C21 witness: two generate calls have updated the weights and the
\* output of an instance that is as it was constructed
C21_Witness ==
    /\ status = "ready"
    /\ calls = 2
    /\ \A i \in 1..Len(net.weights) : net.weights[i].updates = 2
    /\ u_adapt # ZeroVec(N_JOINTS)
    /\ ~use_dq
    /\ N_INPUTS = 1
    /\ Len(adapt_ens) = 1
    /\ backend = args.backend
    /\ robot_config = args.robot_config

\* the ticks the engine can observe: the arguments of one generate call,
\* or the zeros of __init__
Ticks ==
    CallInputs \cup {<<ZeroVec(N_JOINTS), ZeroVec(N_JOINTS), ZeroVec(N_JOINTS)>>}

Assigned == q # UnsetVec /\ dq # UnsetVec /\ training_signal # UnsetVec

\* C23: the input nodes never read an attribute that has not been
\* assigned.  With backend 'nengo' or 'nengo_ocl' the engine has read
\* nothing and stepped nowhere until a generate call has assigned the three
\* inputs, and what a step has read are vectors of the nodes' sizes; with
\* backend 'nengo_spinnaker' the three are assigned (zeros, until the
\* first call) in every state in which the machine runs.
C23_NoReadBeforeAssignment ==
    /\ (Synchronous /\ ~Assigned) =>
           /\ net.n_steps = 0
           /\ net.fb = <<>>
           /\ net.ts_read = <<>>
    /\ (Synchronous /\ net.n_steps > 0) =>
           /\ Assigned
           /\ Len(net.fb) = N_JOINTS * N_INPUTS
           /\ Len(net.ts_read) = N_JOINTS
    /\ (status = "ready" /\ sim.running) =>
           /\ Assigned
           /\ caller.last = "none" =>
                  /\ q = ZeroVec(N_JOINTS)
                  /\ dq = ZeroVec(N_JOINTS)
                  /\ training_signal = ZeroVec(N_JOINTS)
           /\ net.fb # <<>> =>
                  /\ Len(net.fb) = N_JOINTS * N_INPUTS
                  /\ Len(net.ts_read) = N_JOINTS

\* C23 witness: the machine has stepped before any generate call, on the
\* zeros assigned by __init__
C23_Witness ==
    /\ Asynchronous
    /\ caller.last = "none"
    /\ net.n_steps = 1
    /\ q = ZeroVec(N_JOINTS)
    /\ net.fb = qdq_input(q, dq, use_dq)
    /\ net.ts_read = training_signal

\* C23 witness on a synchronous backend: the first step has read the
\* inputs the first call assigned
C23_WitnessSynchronous ==
    /\ Synchronous
    /\ calls = 1
    /\ net.n_steps = 1
    /\ Assigned
    /\ net.fb = qdq_input(q, dq, use_dq)

\* C24: an instance whose construction succeeded has one of the three
\* backends, the one it was constructed for, so that every generate call
\* takes the branch of its backend, sim.run for 'nengo' and 'nengo_ocl' and
\* sim.async_update for 'nengo_spinnaker', and never the final else branch.
C24_FallbackUnreachable ==
    status = "ready" =>
        /\ backend \in Backends
        /\ backend = args.backend
        /\ sim.kind = backend
        /\ Branch(backend) # "fallback"
        /\ caller.last # "none" =>
               /\ caller.path \in {"run", "async_update"}
               /\ caller.path = "async_update" <=> backend = "nengo_spinnaker"
               /\ caller.path = "run" <=> backend \in {"nengo", "nengo_ocl"}

\* C24 witness: a generate call on a 'nengo_spinnaker' instance has taken
\* the sim.async_update branch
C24_Witness ==
    /\ status = "ready"
    /\ backend = "nengo_spinnaker"
    /\ caller.last = "returned"
    /\ caller.path = "async_update"

\* C24 witness of the other branch: a call on a 'nengo_ocl' instance has
\* taken the sim.run branch
C24_WitnessRun ==
    /\ status = "ready"
    /\ backend = "nengo_ocl"
    /\ caller.last = "returned"
    /\ caller.path = "run"

====
